---- MODULE Spec2Model ----
(***************************************************************************)
(* Model of src/music.py: the MusicPlayer playback state (current_index,   *)
(* playing, volume, start_time, elapsed_time), the pygame mixer it drives  *)
(* and the wall clock it reads.  Every method of MusicPlayer is one action *)
(* that a caller may invoke in any order on a library of any size (Spec).   *)
(* SpecMain runs the same methods from main()'s key loop, and SpecFormat    *)
(* applies format_time to a number of seconds.                             *)
(*                                                                         *)
(* Units: time is counted in whole seconds; volume is counted in tenths    *)
(* (0.5 is 5, the step 0.1 is 1, the clamps 0.0 and 1.0 are 0 and 10).     *)
(***************************************************************************)
EXTENDS Integers, Sequences, FiniteSets, TLC

\* ---- bounds of the model ------------------------------------------------
MaxSongs == 2
MaxTime == 2
MaxSeconds == 3600

\* ---- program constants --------------------------------------------------
None == -1000
InitVolume == 5
VolumeStep == 1
MinVolume == 0
MaxVolume == 10

\* indices a caller may hand to play(index) on a library of n songs: every
\* position 0 .. n-1, the first one past the end, -1 (Python counts negative
\* indices from the end) and the first one below -n
IndexArgs(n) == {0 - (n + 1), 0 - 1} \cup (0 .. n)

VARIABLES
    nsongs,         \* len(self.library.songs), fixed after _load_songs
    current_index,  \* self.current_index
    playing,        \* self.playing
    volume,         \* self.volume, in tenths
    start_time,     \* self.start_time, None or a clock reading
    elapsed_time,   \* self.elapsed_time
    now,            \* time.time()
    dev_state,      \* pygame.mixer.music: "idle", "playing" or "paused"
    dev_track,      \* pygame.mixer.music: the loaded track, or None
    dev_volume,     \* pygame.mixer.music: the volume last set
    raised,         \* the exception the last call let escape, or "none"
    printed,        \* TRUE iff the last call printed a load error
    last,           \* history: the call just made and the status it started from
    run,            \* history: the current run of next_song/previous_song calls
    played,         \* history: seconds spent playing since the last successful
                    \* play() or stop()
    cmds,           \* history: the mixer calls the call just made issued, in order
    pc,             \* main(): where control is ("api" when main() is not running)
    index,          \* main(): the local `index`, the selection cursor
    seconds,        \* format_time: its argument
    formatted       \* format_time: the string it returned, as its characters

host == <<current_index, playing, volume, start_time, elapsed_time>>
dev == <<dev_state, dev_track, dev_volume>>
loop == <<pc, index>>
fmt == <<seconds, formatted>>
vars == <<nsongs, current_index, playing, volume, start_time, elapsed_time, now,
          dev_state, dev_track, dev_volume, raised, printed, last, run, played,
          cmds, pc, index, seconds, formatted>>

\* ---- pure helpers -------------------------------------------------------

\* get_elapsed_time(), as a function of the fields it reads and the clock
get_elapsed_time_closed(st, el, pl, t) == el
get_elapsed_time(st, el, pl, t) ==
    IF st = None THEN el ELSE el + (IF pl THEN t - st ELSE 0)

GetElapsedTime == get_elapsed_time(start_time, elapsed_time, playing, now)

\* `if self.library.songs:` in play()
HasSongs_always(n) == TRUE
HasSongs(n) == n > 0

\* songs[i] raises IndexError outside -n .. n-1 (Python list indexing)
ValidIndex(i, n) == (0 - n) <= i /\ i < n

\* the list position songs[i] denotes for a valid, possibly negative, i
SongAt(i, n) == IF i < 0 THEN i + n ELSE i

\* next_song / previous_song index arithmetic (Python % with positive n)
NextIndex_clamped(i, n) == IF i + 1 < n THEN i + 1 ELSE i
NextIndex(i, n) == (i + 1) % n
PreviousIndex_nowrap(i, n) == i - 1
PreviousIndex(i, n) == (i - 1) % n

\* change_volume arithmetic
VolumeUp_unclamped(v) == v + VolumeStep
VolumeUp(v) == IF v + VolumeStep < MaxVolume THEN v + VolumeStep ELSE MaxVolume
VolumeDown(v) == IF v - VolumeStep > MinVolume THEN v - VolumeStep ELSE MinVolume

\* pause(): the field values written by the `if self.playing` branch
PauseElapsed(el, st, t) == el + (t - st)
PauseStart_keeps(t) == t
PauseStart(t) == None

\* stop(): the field values it writes
StopElapsed_keeps(el) == el
StopElapsed(el) == 0
StopStart_keeps(st) == st
StopStart(st) == None
StopPlaying == FALSE

\* ---- history bookkeeping ------------------------------------------------

\* the transport state a caller observes: the playing flag and, when it is
\* off, whether the mixer holds a paused track
StatusOf(pl, ds) ==
    IF pl THEN "Playing" ELSE IF ds = "paused" THEN "Paused" ELSE "Stopped"

Status == StatusOf(playing, dev_state)

\* the record of a call: what was called, with what, whether it reached the
\* mixer's load and the load succeeded, and the status and elapsed reading the
\* call started from
Snapshot(op, arg, ok) ==
    [op |-> op, arg |-> arg, ok |-> ok,
     status |-> Status, elapsed |-> GetElapsedTime]

\* the record once the clock has advanced past the last call
NoCall == [op |-> "tick", arg |-> None, ok |-> FALSE, status |-> "Stopped", elapsed |-> 0]

NoRun == [kind |-> "none", len |-> 0, start |-> 0]

\* the run after one more next_song ("next") or previous_song ("prev") call
RunAfter(kind) ==
    IF run.kind = kind /\ run.len < nsongs
    THEN [run EXCEPT !.len = run.len + 1]
    ELSE IF run.kind \in {"next", "prev"} /\ run.kind # kind /\ run.len = 1
    THEN [kind |-> (IF kind = "prev" THEN "next-prev" ELSE "prev-next"),
          len |-> 2, start |-> run.start]
    ELSE [kind |-> kind, len |-> 1, start |-> current_index]

\* ---- initial state: MusicPlayer.__init__ --------------------------------

Init ==
    /\ nsongs \in 0 .. MaxSongs
    /\ current_index = 0
    /\ playing = FALSE
    /\ volume = InitVolume
    /\ start_time = None
    /\ elapsed_time = 0
    /\ now = 0
    /\ dev_state = "idle"
    /\ dev_track = None
    /\ dev_volume = MaxVolume
    /\ raised = "none"
    /\ printed = FALSE
    /\ last = [op |-> "init", arg |-> None, ok |-> FALSE,
               status |-> "Stopped", elapsed |-> 0]
    /\ run = NoRun
    /\ played = 0
    /\ cmds = <<>>
    /\ pc = "api"
    /\ index = 0
    /\ seconds = 0
    /\ formatted = <<>>

\* ---- the clock ----------------------------------------------------------

Tick ==
    /\ now < MaxTime
    /\ now' = now + 1
    /\ played' = IF playing THEN played + 1 ELSE played
    /\ last' = NoCall
    /\ cmds' = <<>>
    /\ UNCHANGED <<nsongs, host, dev, raised, printed, run, loop, fmt>>

\* ---- MusicPlayer.play ---------------------------------------------------

\* the body of play() once current_index has the value ci; ok tells whether
\* pygame.mixer.music.load succeeds.  A load that raises pygame.error leaves
\* the mixer as it was (the except branch only prints) and an IndexError from
\* songs[ci] escapes after current_index has been assigned.
play_body(ci, ok) ==
    /\ current_index' = ci
    /\ IF ~HasSongs(nsongs)
       THEN /\ raised' = "none"
            /\ printed' = FALSE
            /\ cmds' = <<>>
            /\ UNCHANGED <<playing, start_time, dev, played>>
       ELSE IF ~ValidIndex(ci, nsongs)
       THEN /\ raised' = "IndexError"
            /\ printed' = FALSE
            /\ cmds' = <<>>
            /\ UNCHANGED <<playing, start_time, dev, played>>
       ELSE IF ok
       THEN /\ dev_track' = SongAt(ci, nsongs)
            /\ dev_volume' = volume
            /\ dev_state' = "playing"
            /\ start_time' = now
            /\ playing' = TRUE
            /\ played' = 0
            /\ raised' = "none"
            /\ printed' = FALSE
            /\ cmds' = <<"load", "set_volume", "play">>
       ELSE /\ raised' = "none"
            /\ printed' = TRUE
            /\ cmds' = <<"load">>
            /\ UNCHANGED <<playing, start_time, dev, played>>

play(i, ok) ==
    /\ play_body(IF i # None THEN i ELSE current_index, ok)
    /\ last' = Snapshot("play", i,
                         ok /\ HasSongs(nsongs) /\ ValidIndex(current_index', nsongs))
    /\ run' = NoRun
    /\ UNCHANGED <<nsongs, volume, elapsed_time, now, fmt>>

\* ---- MusicPlayer.pause --------------------------------------------------

pause ==
    /\ IF playing
       THEN /\ dev_state' = IF dev_state = "playing" THEN "paused" ELSE dev_state
            /\ cmds' = <<"pause">>
            /\ elapsed_time' = PauseElapsed(elapsed_time, start_time, now)
            /\ start_time' = PauseStart(now)
            /\ playing' = FALSE
       ELSE /\ dev_state' = IF dev_state = "paused" THEN "playing" ELSE dev_state
            /\ cmds' = <<"unpause">>
            /\ start_time' = now
            /\ playing' = TRUE
            /\ UNCHANGED elapsed_time
    /\ raised' = "none"
    /\ printed' = FALSE
    /\ last' = Snapshot("pause", None, FALSE)
    /\ run' = NoRun
    /\ UNCHANGED <<nsongs, current_index, volume, now, dev_track, dev_volume, played,
                   fmt>>

\* ---- MusicPlayer.stop ---------------------------------------------------

stop_body ==
    /\ dev_state' = "idle"
    /\ elapsed_time' = StopElapsed(elapsed_time)
    /\ start_time' = StopStart(start_time)
    /\ playing' = StopPlaying

stop ==
    /\ stop_body
    /\ played' = 0
    /\ raised' = "none"
    /\ printed' = FALSE
    /\ cmds' = <<"stop">>
    /\ last' = Snapshot("stop", None, FALSE)
    /\ run' = NoRun
    /\ UNCHANGED <<nsongs, current_index, volume, now, dev_track, dev_volume, fmt>>

\* ---- MusicPlayer.next_song / previous_song ------------------------------

\* stop(); current_index = step(current_index) % len(songs); play()
\* with len(songs) = 0 the % raises ZeroDivisionError after stop() has run
skip(kind, ok) ==
    /\ IF nsongs = 0
       THEN /\ stop_body
            /\ played' = 0
            /\ raised' = "ZeroDivisionError"
            /\ printed' = FALSE
            /\ cmds' = <<"stop">>
            /\ UNCHANGED <<current_index, dev_track, dev_volume>>
       ELSE LET ci == IF kind = "next" THEN NextIndex(current_index, nsongs)
                      ELSE PreviousIndex(current_index, nsongs)
            IN  /\ current_index' = ci
                /\ elapsed_time' = StopElapsed(elapsed_time)
                /\ raised' = "none"
                /\ IF ok
                   THEN /\ dev_track' = SongAt(ci, nsongs)
                        /\ dev_volume' = volume
                        /\ dev_state' = "playing"
                        /\ start_time' = now
                        /\ playing' = TRUE
                        /\ printed' = FALSE
                        /\ cmds' = <<"stop", "load", "set_volume", "play">>
                   ELSE /\ dev_state' = "idle"
                        /\ start_time' = StopStart(start_time)
                        /\ playing' = StopPlaying
                        /\ printed' = TRUE
                        /\ cmds' = <<"stop", "load">>
                        /\ UNCHANGED <<dev_track, dev_volume>>
                /\ played' = 0
    /\ last' = Snapshot(kind, None, ok /\ nsongs > 0)
    /\ run' = IF nsongs = 0 THEN NoRun ELSE RunAfter(kind)
    /\ UNCHANGED <<nsongs, volume, now, fmt>>

next_song(ok) == skip("next", ok)
previous_song(ok) == skip("prev", ok)

\* ---- MusicPlayer.change_volume ------------------------------------------

change_volume_unsent(increase) ==
    /\ volume' = IF increase THEN VolumeUp(volume) ELSE VolumeDown(volume)
    /\ cmds' = <<>>
    /\ raised' = "none"
    /\ printed' = FALSE
    /\ last' = Snapshot(IF increase THEN "volup" ELSE "voldown", volume, FALSE)
    /\ run' = NoRun
    /\ UNCHANGED <<nsongs, current_index, playing, start_time, elapsed_time, now,
                   dev, played, fmt>>

\* the record of the call keeps the volume it started from
change_volume(increase) ==
    /\ volume' = IF increase THEN VolumeUp(volume) ELSE VolumeDown(volume)
    /\ dev_volume' = volume'
    /\ cmds' = <<"set_volume">>
    /\ raised' = "none"
    /\ printed' = FALSE
    /\ last' = Snapshot(IF increase THEN "volup" ELSE "voldown", volume, FALSE)
    /\ run' = NoRun
    /\ UNCHANGED <<nsongs, current_index, playing, start_time, elapsed_time, now,
                   dev_state, dev_track, played, fmt>>

\* ---- MusicPlayer.get_elapsed_time ---------------------------------------

\* a call of get_elapsed_time(): it only reads, and the record of the call
\* holds the value it returns (last.elapsed)
query_elapsed ==
    /\ last' = Snapshot("elapsed", None, FALSE)
    /\ cmds' = <<>>
    /\ raised' = "none"
    /\ printed' = FALSE
    /\ UNCHANGED <<nsongs, host, dev, now, run, played, fmt>>

\* ---- specification ------------------------------------------------------

Next ==
    \/ Tick
    \/ \E i \in IndexArgs(nsongs) \cup {None}, ok \in BOOLEAN :
          play(i, ok) /\ UNCHANGED loop
    \/ pause /\ UNCHANGED loop
    \/ stop /\ UNCHANGED loop
    \/ \E ok \in BOOLEAN : next_song(ok) /\ UNCHANGED loop
    \/ \E ok \in BOOLEAN : previous_song(ok) /\ UNCHANGED loop
    \/ \E increase \in BOOLEAN : change_volume(increase) /\ UNCHANGED loop
    \/ query_elapsed /\ UNCHANGED loop

Spec == Init /\ [][Next]_vars

\* ---- MusicPlayer.format_time --------------------------------------------

\* time.gmtime(s) for s >= 0: the clock fields of the broken-down UTC time
gmtime_nowrap(s) ==
    [tm_hour |-> s \div 3600, tm_min |-> s \div 60, tm_sec |-> s % 60]
gmtime(s) ==
    [tm_hour |-> (s \div 3600) % 24, tm_min |-> (s \div 60) % 60, tm_sec |-> s % 60]

DigitChars == <<"0", "1", "2", "3", "4", "5", "6", "7", "8", "9">>

\* %M and %S: a field in 0 .. 99 as two decimal digits, zero padded
TwoDigits(n) == <<DigitChars[(n \div 10) + 1], DigitChars[(n % 10) + 1]>>

\* time.strftime('%M:%S', tm)
strftime_MS(tm) == TwoDigits(tm.tm_min) \o <<":">> \o TwoDigits(tm.tm_sec)

format_time(s) == strftime_MS(gmtime(s))

InitFormat ==
    /\ nsongs = 0
    /\ current_index = 0
    /\ playing = FALSE
    /\ volume = InitVolume
    /\ start_time = None
    /\ elapsed_time = 0
    /\ now = 0
    /\ dev_state = "idle"
    /\ dev_track = None
    /\ dev_volume = MaxVolume
    /\ raised = "none"
    /\ printed = FALSE
    /\ last = [op |-> "init", arg |-> None, ok |-> FALSE,
               status |-> "Stopped", elapsed |-> 0]
    /\ run = NoRun
    /\ played = 0
    /\ cmds = <<>>
    /\ pc = "format"
    /\ index = 0
    /\ seconds \in 0 .. MaxSeconds
    /\ formatted = <<>>

\* one call of the static method on the chosen number of seconds
FormatTime ==
    /\ pc = "format"
    /\ formatted = <<>>
    /\ formatted' = format_time(seconds)
    /\ UNCHANGED <<nsongs, host, dev, now, raised, printed, last, run, played, cmds,
                   loop, seconds>>

NextFormat == FormatTime

SpecFormat == InitFormat /\ [][NextFormat]_vars

\* ---- main(): the key loop ------------------------------------------------

\* `index -= 1` under `index > 0`, `index += 1` under `index < len(songs) - 1`
CursorUp(i) == IF i > 0 THEN i - 1 ELSE i
CursorDown_unclamped(i, n) == i + 1
CursorDown(i, n) == IF i < n - 1 THEN i + 1 ELSE i

\* the rows the song list draws in reverse video: `if i == index`
Highlighted == {i \in 0 .. (nsongs - 1) : i = index}

\* an exception escaping a method leaves the while loop and main()
AfterCall == pc' = IF raised' # "none" THEN "crashed" ELSE "loop"

InitMain ==
    /\ nsongs \in 0 .. MaxSongs
    /\ current_index = 0
    /\ playing = FALSE
    /\ volume = InitVolume
    /\ start_time = None
    /\ elapsed_time = 0
    /\ now = 0
    /\ dev_state = "idle"
    /\ dev_track = None
    /\ dev_volume = MaxVolume
    /\ raised = "none"
    /\ printed = FALSE
    /\ last = [op |-> "init", arg |-> None, ok |-> FALSE,
               status |-> "Stopped", elapsed |-> 0]
    /\ run = NoRun
    /\ played = 0
    /\ cmds = <<>>
    /\ pc = "start"
    /\ index = 0
    /\ seconds = 0
    /\ formatted = <<>>

\* `if not player.library.songs:` show the message and return
MainEmpty ==
    /\ pc = "start"
    /\ nsongs = 0
    /\ pc' = "empty"
    /\ UNCHANGED <<nsongs, host, dev, now, raised, printed, last, run, played, cmds,
                   index, fmt>>

\* index = 0; player.play(index); enter the loop
MainStart(ok) ==
    /\ pc = "start"
    /\ nsongs > 0
    /\ index' = 0
    /\ play(index', ok)
    /\ AfterCall

KeyQuit_break ==
    /\ pc = "loop"
    /\ pc' = "quit"
    /\ last' = Snapshot("quit", None, FALSE)
    /\ cmds' = <<>>
    /\ UNCHANGED <<nsongs, host, dev, now, raised, printed, run, played, index, fmt>>

\* q: player.stop(); break
KeyQuit ==
    /\ pc = "loop"
    /\ stop
    /\ pc' = "quit"
    /\ UNCHANGED index

\* KEY_UP / KEY_DOWN: move the cursor, or nothing at the end of the list
KeyMove(up) ==
    /\ pc = "loop"
    /\ index' = IF up THEN CursorUp(index) ELSE CursorDown(index, nsongs)
    /\ last' = Snapshot(IF up THEN "up" ELSE "down", index, FALSE)
    /\ cmds' = <<>>
    /\ raised' = "none"
    /\ printed' = FALSE
    /\ UNCHANGED <<nsongs, host, dev, now, run, played, pc, fmt>>

KeyEnter_current(ok) ==
    /\ pc = "loop"
    /\ play(None, ok)
    /\ AfterCall
    /\ UNCHANGED index

\* Enter: player.play(index)
KeyEnter(ok) ==
    /\ pc = "loop"
    /\ play(index, ok)
    /\ AfterCall
    /\ UNCHANGED index

\* space: player.pause()
KeySpace ==
    /\ pc = "loop"
    /\ pause
    /\ AfterCall
    /\ UNCHANGED index

\* + / -: player.change_volume(True / False)
KeyVolume(increase) ==
    /\ pc = "loop"
    /\ change_volume(increase)
    /\ AfterCall
    /\ UNCHANGED index

\* KEY_RIGHT / KEY_LEFT: player.next_song() / player.previous_song()
KeySkip(right, ok) ==
    /\ pc = "loop"
    /\ IF right THEN next_song(ok) ELSE previous_song(ok)
    /\ AfterCall
    /\ UNCHANGED index

\* time passes while main() runs
TickMain ==
    /\ pc \in {"start", "loop"}
    /\ Tick

NextMain ==
    \/ MainEmpty
    \/ \E ok \in BOOLEAN : MainStart(ok)
    \/ KeyQuit
    \/ \E up \in BOOLEAN : KeyMove(up)
    \/ \E ok \in BOOLEAN : KeyEnter(ok)
    \/ KeySpace
    \/ \E increase \in BOOLEAN : KeyVolume(increase)
    \/ \E right \in BOOLEAN, ok \in BOOLEAN : KeySkip(right, ok)
    \/ TickMain

SpecMain == InitMain /\ [][NextMain]_vars

TypeOK ==
    /\ nsongs \in 0 .. MaxSongs
    /\ current_index \in (0 - (MaxSongs + 1)) .. MaxSongs
    /\ playing \in BOOLEAN
    /\ volume \in MinVolume .. MaxVolume
    /\ start_time \in {None} \cup (0 .. MaxTime)
    /\ elapsed_time \in 0 .. MaxTime
    /\ now \in 0 .. MaxTime
    /\ dev_state \in {"idle", "playing", "paused"}
    /\ dev_track \in {None} \cup (0 .. MaxSongs)
    /\ dev_volume \in MinVolume .. MaxVolume
    /\ raised \in {"none", "IndexError", "ZeroDivisionError"}
    /\ printed \in BOOLEAN
    /\ played \in 0 .. MaxTime
    /\ pc \in {"api", "start", "loop", "quit", "empty", "crashed", "format"}
    /\ index \in 0 .. MaxSongs
    /\ seconds \in 0 .. MaxSeconds

\* ---- properties ---------------------------------------------------------

\* a step is a call of the method op (the clock stands still during a call;
\* last names the call until the clock next advances)
Called(op) == now' = now /\ last'.op = op

\* the last call was a play() that reached the mixer's load and it succeeded
PlaySucceeded == last.op = "play" /\ last.ok

\* the last call was a play() whose load the mixer refused
PlayFailed == last.op = "play" /\ printed

\* C1: after any sequence of commands and clock advances, get_elapsed_time()
\* equals the time the track has spent playing since its most recent
\* successful play (and, a stop dropping the position, since the last stop).
C1_ElapsedIsTimePlayed == GetElapsedTime = played

\* C2: a play() on which the mixer succeeds ends with elapsed_time = 0,
\* start_time = now and playing = TRUE, from whatever state it was issued.
C2_PlayResetsElapsed ==
    PlaySucceeded =>
        (elapsed_time = 0 /\ start_time = now /\ playing)

\* C3: a play(index) whose load fails lets no exception escape, keeps the
\* requested index in current_index, and leaves the player not playing with
\* no open interval, whatever the status was before.
C3_FailedPlayNotPlaying ==
    PlayFailed =>
        /\ raised = "none"
        /\ (last.arg # None => current_index = last.arg)
        /\ ~playing
        /\ start_time = None

\* C4: pause() issued while the player is stopped (initially, after stop(),
\* after a next_song/previous_song whose load failed) changes nothing:
\* current_index, playing, volume, start_time and elapsed_time keep their
\* values, so the elapsed reading does not start advancing.
C4_PauseWhenStoppedIsNoOp ==
    [][(Called("pause") /\ Status = "Stopped"
          /\ (last.op \in {"init", "stop"} \/ (last.op \in {"next", "prev"} /\ ~last.ok)))
        => UNCHANGED <<current_index, playing, volume, start_time, elapsed_time>>]_vars

\* C5: in every reachable state start_time is set exactly when playing is
\* TRUE, also after plays whose load failed.
C5_StartSetIffPlaying == (start_time # None) <=> playing

\* C5 witness: a failed load was issued while playing, and the interval is
\* still open
C5_Witness == PlayFailed /\ playing /\ start_time # None /\ now > start_time

C7_EmptySkipIsNoOp ==
    [][((Called("next") \/ Called("prev")) /\ nsongs = 0) =>
        /\ raised' = "none"
        /\ UNCHANGED <<current_index, playing, volume, start_time, elapsed_time>>]_vars

\* C8: on a library of N >= 1 songs and from an index in 0 .. N-1, N
\* next_song() calls in a row, or N previous_song() calls in a row, bring
\* current_index back to where the run started, and so does next_song()
\* followed by previous_song() or the reverse, whether or not the loads succeed.
C8_WrapAround ==
    (nsongs >= 1 /\ run.start \in 0 .. (nsongs - 1)) =>
        /\ (run.kind \in {"next", "prev"} /\ run.len = nsongs)
              => current_index = run.start
        /\ run.kind \in {"next-prev", "prev-next"} => current_index = run.start

\* C8 witness: a full run of next_song() on the largest library, the last
\* load of which failed
C8_Witness ==
    /\ nsongs = MaxSongs
    /\ run.kind = "next" /\ run.len = nsongs
    /\ run.start = nsongs - 1
    /\ current_index = run.start
    /\ last.op = "next" /\ ~last.ok /\ printed

\* C9: stop() from any state leaves playing = FALSE (status Stopped),
\* elapsed_time = 0 and start_time unset, keeps current_index and volume, and
\* a stop() that follows a stop() changes nothing in the player or the mixer.
C9_StopResetsAndIsIdempotent ==
    [][Called("stop") =>
        /\ ~playing' /\ Status' = "Stopped"
        /\ elapsed_time' = 0
        /\ start_time' = None
        /\ UNCHANGED <<current_index, volume>>
        /\ (last.op = "stop" => UNCHANGED <<host, dev>>)]_vars

\* C9 witness: stop() has run on a playing track that had elapsed time
C9_Witness ==
    /\ last.op = "stop" /\ last.status = "Playing" /\ last.elapsed > 0
    /\ ~playing /\ elapsed_time = 0 /\ start_time = None

\* C10: right after next_song() or previous_song() on a non-empty library,
\* get_elapsed_time() read at the same instant is 0, whatever the elapsed
\* time of the previous track and whether it was playing or paused.
C10_SkipReadsZero ==
    (last.op \in {"next", "prev"} /\ nsongs > 0)
        => GetElapsedTime = 0

\* C10 witness: next_song() has just run on a playing track with elapsed time
\* and the new track is playing
C10_Witness ==
    /\ last.op = "next" /\ nsongs > 0
    /\ last.status = "Playing" /\ last.elapsed > 1
    /\ playing /\ start_time = now /\ now > 0

\* C11: when main() leaves its loop on q, the player has been stopped first:
\* playing is FALSE (status Stopped), elapsed_time is 0, start_time is unset,
\* and the last call sent to the mixer is stop, so the mixer is idle, whatever
\* keys came before.
C11_QuitStops ==
    pc = "quit" =>
        /\ ~playing /\ Status = "Stopped"
        /\ elapsed_time = 0
        /\ start_time = None
        /\ cmds # <<>> /\ cmds[Len(cmds)] = "stop"
        /\ dev_state = "idle"

\* C11 witness: q was pressed while a track was playing with elapsed time
C11_Witness ==
    /\ pc = "quit"
    /\ last.op = "stop" /\ last.status = "Playing" /\ last.elapsed > 0
    /\ dev_state = "idle" /\ dev_track # None

\* C12: with a non-empty library of N songs, after any sequence of keys both
\* current_index and the cursor stay in 0 .. N-1, no IndexError is raised and
\* the loop is never left by an exception.
C12_IndicesInRange ==
    (nsongs > 0 /\ pc # "start") =>
        /\ index \in 0 .. (nsongs - 1)
        /\ current_index \in 0 .. (nsongs - 1)
        /\ raised = "none"
        /\ pc # "crashed"

\* C12 witness: the cursor is on the last row of the largest library, KEY_DOWN
\* was pressed there, and the player is on another track
C12_Witness ==
    /\ pc = "loop" /\ nsongs = MaxSongs
    /\ last.op = "down" /\ last.arg = nsongs - 1 /\ index = nsongs - 1
    /\ current_index = 0 /\ run.kind = "next" /\ run.len = nsongs

C13_OutOfRangeRaises ==
    (last.op = "play" /\ nsongs > 0 /\ last.arg # None
        /\ last.arg \notin 0 .. (nsongs - 1))
    => (raised = "IndexError" /\ cmds = <<>>)

\* C14: starting from 0.5 the volume stays within 0.0 .. 1.0; an increase
\* sets it to min(1.0, volume + 0.1) and a decrease to max(0.0, volume - 0.1),
\* so an increase at the top gives exactly 1.0 and a decrease at the bottom
\* exactly 0.0.
C14_VolumeClamped ==
    /\ volume \in MinVolume .. MaxVolume
    /\ last.op = "volup" =>
          /\ (last.arg + VolumeStep <= MaxVolume => volume = last.arg + VolumeStep)
          /\ (last.arg + VolumeStep > MaxVolume => volume = MaxVolume)
    /\ last.op = "voldown" =>
          /\ (last.arg - VolumeStep >= MinVolume => volume = last.arg - VolumeStep)
          /\ (last.arg - VolumeStep < MinVolume => volume = MinVolume)

\* C14 witness: an increase was asked for at full volume
C14_Witness ==
    /\ last.op = "volup" /\ last.arg = MaxVolume /\ volume = MaxVolume
    /\ dev_volume = MaxVolume /\ playing

\* C15: change_volume in any transport state raises nothing, issues
\* set_volume so that the mixer's volume equals the player's right after, and
\* leaves status, current_index, elapsed_time and start_time unchanged.
C15_VolumeFrame ==
    [][(Called("volup") \/ Called("voldown")) =>
        /\ raised' = "none"
        /\ cmds' = <<"set_volume">>
        /\ dev_volume' = volume'
        /\ Status' = Status
        /\ UNCHANGED <<current_index, playing, elapsed_time, start_time, dev_state>>]_vars

\* C15 witness: the volume was lowered while a track was paused with elapsed
\* time, and the mixer has the new volume
C15_Witness ==
    /\ last.op = "voldown" /\ last.status = "Paused" /\ last.elapsed > 0
    /\ Status = "Paused" /\ elapsed_time > 0
    /\ volume = InitVolume - VolumeStep /\ dev_volume = volume

\* C17: get_elapsed_time() returns elapsed_time when start_time is unset and
\* elapsed_time + (now - start_time) otherwise, changes no field of the player
\* and calls nothing on the mixer, in every reachable state.
C17_ElapsedQueryIsPure ==
    [][Called("elapsed") =>
        /\ last'.elapsed = (IF start_time = None THEN elapsed_time
                            ELSE elapsed_time + (now - start_time))
        /\ cmds' = <<>>
        /\ UNCHANGED <<host, dev>>]_vars

\* C17 witness: the query ran on a resumed track, with one second from a
\* closed interval and one from the open one
C17_Witness ==
    /\ last.op = "elapsed" /\ last.elapsed = 2
    /\ playing /\ elapsed_time = 1 /\ start_time = 1 /\ now = 2
    /\ dev_state = "playing"

\* the number a string of decimal digits denotes
DigitValue(c) == CHOOSE d \in 0 .. 9 : DigitChars[d + 1] = c
NumberOf(cs) == 10 * DigitValue(cs[1]) + DigitValue(cs[2])

\* C18: format_time maps a whole number s >= 0 of seconds to MM:SS with
\* MM = (s div 60) mod 60 and SS = s mod 60, both of two digits: 125 gives
\* 02:05 and 3600 gives 00:00.
C18_FormatMinutesSeconds ==
    formatted # <<>> =>
        /\ Len(formatted) = 5
        /\ formatted[3] = ":"
        /\ \A k \in {1, 2, 4, 5} : \E d \in 0 .. 9 : formatted[k] = DigitChars[d + 1]
        /\ NumberOf(SubSeq(formatted, 1, 2)) = (seconds \div 60) % 60
        /\ NumberOf(SubSeq(formatted, 4, 5)) = seconds % 60
        /\ (seconds = 125 => formatted = <<"0", "2", ":", "0", "5">>)
        /\ (seconds = 3600 => formatted = <<"0", "0", ":", "0", "0">>)

\* C18 witness: one hour has been formatted
C18_Witness == seconds = 3600 /\ formatted = <<"0", "0", ":", "0", "0">>

\* C19: whenever playing is TRUE the mixer holds a loaded track and is
\* rendering it, after any sequence of calls.
C19_PlayingMeansRendering ==
    playing => (dev_state = "playing" /\ dev_track # None)

\* the number of times the mixer call c occurs in the sequence cs
CountOf(c, cs) == Cardinality({k \in 1 .. Len(cs) : cs[k] = c})

\* C20: next_song() / previous_song() on a non-empty library call the mixer's
\* stop and then its load, once each, and move current_index by exactly one
\* position modulo N whether or not the load succeeds; when it fails, the
\* player is left stopped at the new index with elapsed_time 0 and start_time
\* unset, and nothing more is sent to the mixer.
C20_SkipStopsThenLoadsOnce ==
    [][((Called("next") \/ Called("prev")) /\ nsongs > 0) =>
        /\ Len(cmds') >= 2 /\ cmds'[1] = "stop" /\ cmds'[2] = "load"
        /\ CountOf("stop", cmds') = 1 /\ CountOf("load", cmds') = 1
        /\ current_index' \in 0 .. (nsongs - 1)
        /\ (Called("next") => (current_index' - (current_index + 1)) % nsongs = 0)
        /\ (Called("prev") => (current_index' - (current_index - 1)) % nsongs = 0)
        /\ raised' = "none"
        /\ (~last'.ok =>
              /\ cmds' = <<"stop", "load">>
              /\ ~playing' /\ Status' = "Stopped"
              /\ elapsed_time' = 0
              /\ start_time' = None)]_vars

\* C20 witness: previous_song() on the first track, playing with elapsed time,
\* wrapped to the last track, whose load failed
C20_Witness ==
    /\ nsongs = MaxSongs
    /\ last.op = "prev" /\ ~last.ok /\ last.status = "Playing" /\ last.elapsed > 0
    /\ run.kind = "prev" /\ run.len = 1 /\ run.start = 0
    /\ current_index = nsongs - 1
    /\ cmds = <<"stop", "load">> /\ printed
    /\ ~playing /\ elapsed_time = 0 /\ start_time = None

====
